---- MODULE Spec2Model ----
(***************************************************************************)
(* Aerodrome pool tracker: the event indexer (pool_events_indexer.py) and  *)
(* the analytics reader (pool_events_reader.py) over one SQLite store.     *)
(***************************************************************************)
EXTENDS Integers, Sequences, FiniteSets, TLC

(***************************************************************************)
(* Bounds of the model and program constants.                              *)
(***************************************************************************)
\* number of scanner runs (invocations of main) explored
MaxRuns == 3
\* rows per table in the stores the reader specifications start from
MaxRows == 2

\* get_start_block(conn, default_lookback_blocks = 200_000)
DEFAULT_LOOKBACK == 200000
\* main: step = 5_000
STEP == 5000
\* get_token_decimals: fallback when the decimals() call fails
FALLBACK_DECIMALS == 18

\* scanner processes; the sequential specification Spec runs process 1 only
Procs == {1, 2}

\* values the RPC node may report as the current block height
Heads == {0, 3000, 9000, 12000}
\* further values it may report to get_start_block's own read: heights at,
\* just above and well above the default lookback
BoundaryHeads == {200000, 200001, 203000}

(***************************************************************************)
(* Text: a Python str is a sequence of one-character strings.              *)
(***************************************************************************)
DigitChars == <<"0", "1", "2", "3", "4", "5", "6", "7", "8", "9">>
HexChars == <<"0", "1", "2", "3", "4", "5", "6", "7", "8", "9",
              "a", "b", "c", "d", "e", "f">>

\* str.lower() on one character of an address
LowerChar(c) ==
  CASE c = "A" -> "a" [] c = "B" -> "b" [] c = "C" -> "c"
    [] c = "D" -> "d" [] c = "E" -> "e" [] c = "F" -> "f"
    [] OTHER -> c

\* variant of Lower: the string as it is
LowerKeepsCase(s) == s

\* pool_address.lower()
Lower(s) == [i \in DOMAIN s |-> LowerChar(s[i])]

\* str(n) for a non-negative Python int
RECURSIVE ToStr(_)
ToStr(n) ==
  IF n < 10 THEN <<DigitChars[n + 1]>>
  ELSE Append(ToStr(n \div 10), DigitChars[(n % 10) + 1])

DigitValue(c) == (CHOOSE i \in DOMAIN DigitChars : DigitChars[i] = c) - 1

\* int(s) for a decimal string
RECURSIVE ToInt(_)
ToInt(s) ==
  IF Len(s) = 0 THEN 0
  ELSE 10 * ToInt(SubSeq(s, 1, Len(s) - 1)) + DigitValue(s[Len(s)])

\* HexBytes.hex(): two hexadecimal digits per byte
RECURSIVE Hex(_)
Hex(bytes) ==
  IF Len(bytes) = 0 THEN <<>>
  ELSE <<HexChars[(bytes[1] \div 16) + 1], HexChars[(bytes[1] % 16) + 1]>>
       \o Hex(Tail(bytes))

(***************************************************************************)
(* The chain: the configured pools and the logs the RPC node serves.       *)
(***************************************************************************)
PoolA == <<"9", "D", "a">>
PoolB == <<"8", "0", "c">>

DEFAULT_POOLS == <<PoolA, PoolB>>

\* the pools argument of main: None, or an explicit list
NoPools == <<"None">>
PoolInputs == {NoPools, <<PoolA>>}

Kinds == <<"Mint", "Burn", "Swap", "Claim">>

LiqArgs(sender, a0, a1) ==
  [sender |-> sender, amount0 |-> a0, amount1 |-> a1, to |-> sender, liquidity |-> a0]

SwapArgs(sender, a0in, a1in, a0out, a1out) ==
  [sender |-> sender, recipient |-> sender, amount0In |-> a0in, amount1In |-> a1in,
   amount0Out |-> a0out, amount1Out |-> a1out]

ClaimArgs(sender, a0, a1) ==
  [sender |-> sender, recipient |-> sender, amount0 |-> a0, amount1 |-> a1]

ChainLog(addr, ev, blk, idx, tx, args) ==
  [address |-> addr, event |-> ev, blockNumber |-> blk, logIndex |-> idx,
   transactionHash |-> tx, args |-> args]

\* the logs on chain, in ascending (blockNumber, logIndex) order
ChainLogs ==
  << ChainLog(Lower(PoolA), "Mint", 100, 0, <<1>>, LiqArgs("lp1", 1000, 2000)),
     ChainLog(Lower(PoolA), "Burn", 3000, 0, <<2>>, LiqArgs("lp1", 400, 500)),
     ChainLog(Lower(PoolA), "Swap", 3000, 1, <<171>>, SwapArgs("tr1", 30, 0, 0, 7)),
     ChainLog(Lower(PoolB), "Swap", 3000, 2, <<4>>, SwapArgs("tr2", 0, 12, 5, 0)),
     ChainLog(Lower(PoolA), "Mint", 4000, 0, <<6>>, LiqArgs("lp2", 50, 60)),
     ChainLog(Lower(PoolA), "Claim", 9000, 0, <<5>>, ClaimArgs("lp1", 3, 4)) >>

\* seconds between blocks and the timestamp of block 0
BlockInterval == 2
GenesisTime == 1000

\* w3.eth.get_block(n).timestamp
ChainTimestamp(n) == GenesisTime + n * BlockInterval

\* Web3.to_checksum_address: one canonical spelling per address, whatever the
\* letter case of the argument (the real casing is a hash of the lower-cased
\* address; here the canonical spelling is the lower-cased one)
ToChecksumAddress(a) == Lower(a)

\* variant of GetLogs: to_block is exclusive
GetLogsExclusiveEnd(kind, pool_address, from, to) ==
  LET addr == ToChecksumAddress(pool_address)
      Match(l) == /\ l.address = addr
                  /\ l.event = kind
                  /\ l.blockNumber >= from
                  /\ l.blockNumber < to
  IN SelectSeq(ChainLogs, Match)

\* variant of GetLogs: from_block is not passed on, the filter starts at block 0
GetLogsFromGenesis(kind, pool_address, from, to) ==
  LET addr == ToChecksumAddress(pool_address)
      Match(l) == l.address = addr /\ l.event = kind /\ l.blockNumber <= to
  IN SelectSeq(ChainLogs, Match)

\* pool.events.<kind>.get_logs(from_block, to_block): both ends inclusive
GetLogs(kind, pool_address, from, to) ==
  LET addr == ToChecksumAddress(pool_address)
      Match(l) == /\ l.address = addr
                  /\ l.event = kind
                  /\ l.blockNumber >= from
                  /\ l.blockNumber <= to
  IN SelectSeq(ChainLogs, Match)

(***************************************************************************)
(* State.                                                                  *)
(***************************************************************************)
VARIABLES
  \* the SQLite file: committed rows of the three event tables, in id order,
  \* and the indexer_state table (empty, or its single row's last_block)
  pool_liquidity_events, pool_swaps, pool_fee_claims, indexer_state,
  \* per scanner process: position in main and its locals
  pc, pools, current_block, row, from_block, start, end, poolIdx, kindIdx, queue,
  \* per scanner process: rows inserted on its connection and not yet committed
  pendLiq, pendSwaps, pendClaims,
  \* the reader process: _decimals_cache, the process's UTC offset in seconds,
  \* and the last query with its result
  decimals_cache, utcOffset, query,
  \* history: runs started, the store when the run started, the head of the
  \* previous run if it returned normally, the head get_start_block read,
  \* the pools attempted in the current window and those of them that raised,
  \* whether a pool raised in the run, and the windows whose checkpoint was written
  runs, atStart, lastHead, gsbHead, attempted, failed, raisedRun, windowsDone,
  \* history: the windows of the run whose checkpoint was written, in order;
  \* and, over all runs, for each pool the latest window in which it raised and
  \* whose checkpoint was written (with whether the window was the last of its
  \* run)
  windows, gaps,
  \* history, per scanner process: whether a storage operation (an INSERT or a
  \* commit) raised in the current window
  storageErr

storeVars == <<pool_liquidity_events, pool_swaps, pool_fee_claims, indexer_state>>
scanVars == <<pc, pools, current_block, row, from_block, start, end, poolIdx,
              kindIdx, queue, pendLiq, pendSwaps, pendClaims>>
readVars == <<decimals_cache, utcOffset, query>>
histVars == <<runs, atStart, lastHead, gsbHead, attempted, failed, raisedRun,
              windowsDone, windows, gaps, storageErr>>
vars == <<storeVars, scanVars, readVars, histVars>>

\* no value: Python None, no previous head
None == 0 - 1

Store ==
  [liq |-> pool_liquidity_events, swaps |-> pool_swaps, claims |-> pool_fee_claims,
   state |-> indexer_state]

NoQuery == [fn |-> "none"]

\* UTC offsets of the hosts the reader runs on: UTC, one hour west, one hour east
UtcOffsets == {0, 0 - 3600, 3600}

InitScanner ==
  /\ pc = [p \in Procs |-> "idle"]
  /\ pools = [p \in Procs |-> <<>>]
  /\ current_block = [p \in Procs |-> None]
  /\ row = [p \in Procs |-> None]
  /\ from_block = [p \in Procs |-> None]
  /\ start = [p \in Procs |-> None]
  /\ end = [p \in Procs |-> None]
  /\ poolIdx = [p \in Procs |-> 1]
  /\ kindIdx = [p \in Procs |-> 1]
  /\ queue = [p \in Procs |-> <<>>]
  /\ pendLiq = [p \in Procs |-> <<>>]
  /\ pendSwaps = [p \in Procs |-> <<>>]
  /\ pendClaims = [p \in Procs |-> <<>>]

InitHistory ==
  /\ runs = 0
  /\ atStart = [p \in Procs |-> None]
  /\ lastHead = [p \in Procs |-> None]
  /\ gsbHead = [p \in Procs |-> None]
  /\ attempted = [p \in Procs |-> {}]
  /\ failed = [p \in Procs |-> {}]
  /\ raisedRun = [p \in Procs |-> FALSE]
  /\ windowsDone = [p \in Procs |-> 0]
  /\ windows = [p \in Procs |-> <<>>]
  /\ gaps = {}
  /\ storageErr = [p \in Procs |-> FALSE]

\* a new database file and a new reader process
Init ==
  /\ pool_liquidity_events = <<>>
  /\ pool_swaps = <<>>
  /\ pool_fee_claims = <<>>
  /\ indexer_state = <<>>
  /\ InitScanner
  /\ InitHistory
  /\ decimals_cache = <<>>
  /\ utcOffset = 0
  /\ query = NoQuery

(***************************************************************************)
(* pool_events_indexer.py                                                  *)
(***************************************************************************)
Max(a, b) == IF a >= b THEN a ELSE b
Min(a, b) == IF a <= b THEN a ELSE b

\* variant of SeedBlock: the subtraction without the max(0, ...) clamp
SeedBlockNoClamp(head) == head - DEFAULT_LOOKBACK

\* get_start_block: start_block = max(0, current_block - default_lookback_blocks)
SeedBlock(head) == Max(0, head - DEFAULT_LOOKBACK)

\* variant of ReplaceState: the row keeps the greater of its value and the new one
ReplaceStateKeepsGreater(table, last_block) ==
  IF table = <<>> THEN <<last_block>> ELSE <<Max(table[1], last_block)>>

\* INSERT OR REPLACE INTO indexer_state (id, last_block) VALUES (1, ?)
ReplaceState(table, last_block) == <<last_block>>

\* variant of NoNewBlocks: the comparison without the equal case
NoNewBlocksStrict(from, head) == from > head

\* main: if from_block >= current_block: return
NoNewBlocks(from, head) == from >= head

\* variant of WindowEnd: the window runs up to the next window's first block
WindowEndAtNextStart(s, head) == Min(s + STEP, head)

\* variant of WindowEnd: the end of the window without the min with the head
WindowEndUnclamped(s, head) == s + STEP - 1

\* main: end = min(start + step - 1, current_block)
WindowEnd(s, head) == Min(s + STEP - 1, head)

\* main: range(from_block, current_block + 1, step) has a value after s
HasNextWindow(s, head) == s + STEP < head + 1

\* variant of CommitRows: a row whose tx_hash is written again replaces the
\* stored one (INSERT OR REPLACE on a tx_hash key)
CommitRowsReplacing(table, pending) ==
  LET Kept(r) == \A i \in DOMAIN pending : pending[i].tx_hash # r.tx_hash
  IN SelectSeq(table, Kept) \o pending

\* conn.commit(): the connection's uncommitted rows become rows of the table
CommitRows(table, pending) == table \o pending

\* the INSERT of a Mint (ADD) or Burn (REMOVE) log
LiquidityRow(pool_address, event_type, ev, ts) ==
  [pool_address |-> Lower(pool_address),
   event_type |-> event_type,
   token0_amount |-> ToStr(ev.args.amount0),
   token1_amount |-> ToStr(ev.args.amount1),
   provider_address |-> ev.args.sender,
   tx_hash |-> Hex(ev.transactionHash),
   block_number |-> ev.blockNumber,
   block_time |-> ts]

\* the INSERT of a Swap log
SwapRow(pool_address, ev, ts) ==
  [pool_address |-> Lower(pool_address),
   sender |-> ev.args.sender,
   recipient |-> ev.args.recipient,
   amount0_in |-> ToStr(ev.args.amount0In),
   amount1_in |-> ToStr(ev.args.amount1In),
   amount0_out |-> ToStr(ev.args.amount0Out),
   amount1_out |-> ToStr(ev.args.amount1Out),
   tx_hash |-> Hex(ev.transactionHash),
   block_number |-> ev.blockNumber,
   block_time |-> ts]

\* the INSERT of a Claim log
ClaimRow(pool_address, ev, ts) ==
  [pool_address |-> Lower(pool_address),
   sender |-> ev.args.sender,
   recipient |-> ev.args.recipient,
   token0_fee |-> ToStr(ev.args.amount0),
   token1_fee |-> ToStr(ev.args.amount1),
   tx_hash |-> Hex(ev.transactionHash),
   block_number |-> ev.blockNumber,
   block_time |-> ts]

\* main is called: pools defaults to DEFAULT_POOLS; connect; init_db creates
\* the tables when missing and writes no row. A run starts when the process's
\* previous run has ended.
StartRunWith(p, inputs) ==
  /\ pc[p] \in {"idle", "done", "head_failed", "aborted"}
  /\ runs < MaxRuns
  /\ \E arg \in inputs :
       pools' = [pools EXCEPT ![p] = IF arg = NoPools THEN DEFAULT_POOLS ELSE arg]
  /\ pc' = [pc EXCEPT ![p] = "main_head"]
  /\ runs' = runs + 1
  /\ atStart' = [atStart EXCEPT ![p] = Store]
  /\ lastHead' = [lastHead EXCEPT ![p] = IF pc[p] = "done" THEN current_block[p] ELSE None]
  /\ gsbHead' = [gsbHead EXCEPT ![p] = None]
  /\ attempted' = [attempted EXCEPT ![p] = {}]
  /\ failed' = [failed EXCEPT ![p] = {}]
  /\ raisedRun' = [raisedRun EXCEPT ![p] = FALSE]
  /\ windowsDone' = [windowsDone EXCEPT ![p] = 0]
  /\ windows' = [windows EXCEPT ![p] = <<>>]
  /\ storageErr' = [storageErr EXCEPT ![p] = FALSE]
  /\ UNCHANGED gaps
  /\ current_block' = [current_block EXCEPT ![p] = None]
  /\ row' = [row EXCEPT ![p] = None]
  /\ from_block' = [from_block EXCEPT ![p] = None]
  /\ start' = [start EXCEPT ![p] = None]
  /\ end' = [end EXCEPT ![p] = None]
  /\ poolIdx' = [poolIdx EXCEPT ![p] = 1]
  /\ kindIdx' = [kindIdx EXCEPT ![p] = 1]
  /\ queue' = [queue EXCEPT ![p] = <<>>]
  /\ pendLiq' = [pendLiq EXCEPT ![p] = <<>>]
  /\ pendSwaps' = [pendSwaps EXCEPT ![p] = <<>>]
  /\ pendClaims' = [pendClaims EXCEPT ![p] = <<>>]
  /\ UNCHANGED <<storeVars, readVars>>

StartRun(p) == StartRunWith(p, PoolInputs)

\* main: current_block = w3.eth.block_number
MainReadHead(p, heights) ==
  /\ pc[p] = "main_head"
  /\ \E h \in heights : current_block' = [current_block EXCEPT ![p] = h]
  /\ pc' = [pc EXCEPT ![p] = "gsb_select"]
  /\ UNCHANGED <<storeVars, readVars, histVars, pools, row, from_block, start, end,
                 poolIdx, kindIdx, queue, pendLiq, pendSwaps, pendClaims>>

\* main: w3.eth.block_number raises; the exception leaves main, the
\* connection is dropped with nothing committed
MainReadHeadRaises(p) ==
  /\ pc[p] = "main_head"
  /\ pc' = [pc EXCEPT ![p] = "head_failed"]
  /\ UNCHANGED <<storeVars, readVars, histVars, pools, current_block, row, from_block,
                 start, end, poolIdx, kindIdx, queue, pendLiq, pendSwaps, pendClaims>>

\* get_start_block: SELECT last_block FROM indexer_state WHERE id = 1; fetchone()
GsbSelect(p) ==
  /\ pc[p] = "gsb_select"
  /\ row' = [row EXCEPT ![p] = IF indexer_state = <<>> THEN None ELSE indexer_state[1]]
  /\ pc' = [pc EXCEPT ![p] = "gsb_head"]
  /\ UNCHANGED <<storeVars, readVars, histVars, pools, current_block, from_block, start,
                 end, poolIdx, kindIdx, queue, pendLiq, pendSwaps, pendClaims>>

\* variant of GsbReadHead: the seed is written whether or not a row was found
GsbReadHeadAlwaysSeeds(p, heights) ==
  /\ pc[p] = "gsb_head"
  /\ \E h \in heights :
       /\ gsbHead' = [gsbHead EXCEPT ![p] = h]
       /\ indexer_state' = ReplaceState(indexer_state, Max(0, h - DEFAULT_LOOKBACK))
       /\ from_block' = [from_block EXCEPT ![p] = Max(0, h - DEFAULT_LOOKBACK)]
  /\ pc' = [pc EXCEPT ![p] = "check"]
  /\ UNCHANGED <<pool_liquidity_events, pool_swaps, pool_fee_claims, readVars, runs,
                 atStart, lastHead, attempted, failed, raisedRun, windowsDone,
                 windows, gaps, storageErr,
                 pools, current_block, row, start, end, poolIdx, kindIdx, queue,
                 pendLiq, pendSwaps, pendClaims>>

\* get_start_block: current_block = w3.eth.block_number; with no row the seed
\* is inserted and committed and returned, else the row's value is returned
GsbReadHead(p, heights) ==
  /\ pc[p] = "gsb_head"
  /\ \E h \in heights :
       /\ IF row[p] = None
          THEN /\ gsbHead' = [gsbHead EXCEPT ![p] = h]
               /\ indexer_state' = ReplaceState(indexer_state, SeedBlock(h))
               /\ from_block' = [from_block EXCEPT ![p] = SeedBlock(h)]
          ELSE /\ UNCHANGED <<gsbHead, indexer_state>>
               /\ from_block' = [from_block EXCEPT ![p] = row[p]]
  /\ pc' = [pc EXCEPT ![p] = "check"]
  /\ UNCHANGED <<pool_liquidity_events, pool_swaps, pool_fee_claims, readVars, runs,
                 atStart, lastHead, attempted, failed, raisedRun, windowsDone,
                 windows, gaps, storageErr,
                 pools, current_block, row, start, end, poolIdx, kindIdx, queue,
                 pendLiq, pendSwaps, pendClaims>>

\* variant of GsbReadHeadRaises: a missing row is first created with block 0
\* and committed, and the height is read afterwards
GsbReadHeadRaisesAfterInsert(p) ==
  /\ pc[p] = "gsb_head"
  /\ pc' = [pc EXCEPT ![p] = "head_failed"]
  /\ indexer_state' = IF row[p] = None THEN <<0>> ELSE indexer_state
  /\ UNCHANGED <<pool_liquidity_events, pool_swaps, pool_fee_claims, readVars, histVars,
                 pools, current_block, row, from_block, start, end, poolIdx, kindIdx,
                 queue, pendLiq, pendSwaps, pendClaims>>

\* get_start_block: w3.eth.block_number raises (line 160, before the INSERT)
GsbReadHeadRaises(p) ==
  /\ pc[p] = "gsb_head"
  /\ pc' = [pc EXCEPT ![p] = "head_failed"]
  /\ UNCHANGED <<storeVars, readVars, histVars, pools, current_block, row, from_block,
                 start, end, poolIdx, kindIdx, queue, pendLiq, pendSwaps, pendClaims>>

\* main: the no-new-blocks return, or the first window of the loop
CheckNewBlocks(p) ==
  /\ pc[p] = "check"
  /\ IF NoNewBlocks(from_block[p], current_block[p])
     THEN /\ pc' = [pc EXCEPT ![p] = "done"]
          /\ UNCHANGED <<start, end>>
     ELSE /\ pc' = [pc EXCEPT ![p] = IF Len(pools[p]) = 0 THEN "update" ELSE "index"]
          /\ start' = [start EXCEPT ![p] = from_block[p]]
          /\ end' = [end EXCEPT ![p] = WindowEnd(from_block[p], current_block[p])]
  /\ UNCHANGED <<storeVars, readVars, histVars, pools, current_block, row, from_block,
                 poolIdx, kindIdx, queue, pendLiq, pendSwaps, pendClaims>>

\* variant of NextPoolPc: update_last_block follows the first pool
NextPoolPcAfterFirstPool(p) == "update"

\* main: the for-pool loop moves to the next pool, or to update_last_block
\* after the last one
NextPoolPc(p) == IF poolIdx[p] + 1 > Len(pools[p]) THEN "update" ELSE "index"

\* index_pool_events: pool.events.<kind>.get_logs(from_block, to_block) returns
FetchLogs(p) ==
  /\ pc[p] = "index"
  /\ queue[p] = <<>>
  /\ kindIdx[p] <= Len(Kinds)
  /\ queue' = [queue EXCEPT ![p] =
                 GetLogs(Kinds[kindIdx[p]], pools[p][poolIdx[p]], start[p], end[p])]
  /\ kindIdx' = [kindIdx EXCEPT ![p] = kindIdx[p] + 1]
  /\ UNCHANGED <<storeVars, readVars, histVars, pc, pools, current_block, row,
                 from_block, start, end, poolIdx, pendLiq, pendSwaps, pendClaims>>

\* index_pool_events: one turn of a for-ev loop: get_block_timestamp and INSERT
InsertEvent(p) ==
  /\ pc[p] = "index"
  /\ queue[p] # <<>>
  /\ LET ev == Head(queue[p])
         ts == ChainTimestamp(ev.blockNumber)
         pool_address == pools[p][poolIdx[p]]
     IN /\ pendLiq' = [pendLiq EXCEPT ![p] =
              IF ev.event = "Mint" THEN Append(@, LiquidityRow(pool_address, "ADD", ev, ts))
              ELSE IF ev.event = "Burn"
                   THEN Append(@, LiquidityRow(pool_address, "REMOVE", ev, ts))
                   ELSE @]
        /\ pendSwaps' = [pendSwaps EXCEPT ![p] =
              IF ev.event = "Swap" THEN Append(@, SwapRow(pool_address, ev, ts)) ELSE @]
        /\ pendClaims' = [pendClaims EXCEPT ![p] =
              IF ev.event = "Claim" THEN Append(@, ClaimRow(pool_address, ev, ts)) ELSE @]
  /\ queue' = [queue EXCEPT ![p] = Tail(queue[p])]
  /\ UNCHANGED <<storeVars, readVars, histVars, pc, pools, current_block, row,
                 from_block, start, end, poolIdx, kindIdx>>

\* index_pool_events: conn.commit() after the four kinds; main goes on to the
\* next pool
CommitPool(p) ==
  /\ pc[p] = "index"
  /\ queue[p] = <<>>
  /\ kindIdx[p] > Len(Kinds)
  /\ pool_liquidity_events' = CommitRows(pool_liquidity_events, pendLiq[p])
  /\ pool_swaps' = CommitRows(pool_swaps, pendSwaps[p])
  /\ pool_fee_claims' = CommitRows(pool_fee_claims, pendClaims[p])
  /\ pendLiq' = [pendLiq EXCEPT ![p] = <<>>]
  /\ pendSwaps' = [pendSwaps EXCEPT ![p] = <<>>]
  /\ pendClaims' = [pendClaims EXCEPT ![p] = <<>>]
  /\ attempted' = [attempted EXCEPT ![p] = @ \cup {poolIdx[p]}]
  /\ pc' = [pc EXCEPT ![p] = NextPoolPc(p)]
  /\ poolIdx' = [poolIdx EXCEPT ![p] = poolIdx[p] + 1]
  /\ kindIdx' = [kindIdx EXCEPT ![p] = 1]
  /\ UNCHANGED <<indexer_state, readVars, runs, atStart, lastHead, gsbHead, failed,
                 raisedRun, windowsDone, windows, gaps, storageErr, pools,
                 current_block, row, from_block, start, end, queue>>

\* variant of ExceptInPool: the try encloses the whole for-pool loop, so the
\* first exception ends the window's loop
ExceptInPoolEndsWindow(p) ==
  /\ attempted' = [attempted EXCEPT ![p] = @ \cup {poolIdx[p]}]
  /\ failed' = [failed EXCEPT ![p] = @ \cup {poolIdx[p]}]
  /\ raisedRun' = [raisedRun EXCEPT ![p] = TRUE]
  /\ pc' = [pc EXCEPT ![p] = "update"]
  /\ poolIdx' = [poolIdx EXCEPT ![p] = 1]
  /\ kindIdx' = [kindIdx EXCEPT ![p] = 1]
  /\ queue' = [queue EXCEPT ![p] = <<>>]
  /\ UNCHANGED <<storeVars, readVars, runs, atStart, lastHead, gsbHead, windowsDone,
                 windows, gaps, pools, current_block, row, from_block, start, end,
                 pendLiq, pendSwaps, pendClaims>>

\* main: except Exception: print; the loop goes on to the next pool. The rows
\* index_pool_events inserted before raising stay uncommitted on the connection.
ExceptInPool(p) ==
  /\ attempted' = [attempted EXCEPT ![p] = @ \cup {poolIdx[p]}]
  /\ failed' = [failed EXCEPT ![p] = @ \cup {poolIdx[p]}]
  /\ raisedRun' = [raisedRun EXCEPT ![p] = TRUE]
  /\ pc' = [pc EXCEPT ![p] = NextPoolPc(p)]
  /\ poolIdx' = [poolIdx EXCEPT ![p] = poolIdx[p] + 1]
  /\ kindIdx' = [kindIdx EXCEPT ![p] = 1]
  /\ queue' = [queue EXCEPT ![p] = <<>>]
  /\ UNCHANGED <<storeVars, readVars, runs, atStart, lastHead, gsbHead, windowsDone,
                 windows, gaps, pools, current_block, row, from_block, start, end,
                 pendLiq, pendSwaps, pendClaims>>

\* variant of FetchLogsRaises: the raise is caught around the one event kind,
\* and index_pool_events goes on with the pool's next kind
FetchLogsRaisesSkipsKind(p) ==
  /\ pc[p] = "index"
  /\ queue[p] = <<>>
  /\ kindIdx[p] <= Len(Kinds)
  /\ kindIdx' = [kindIdx EXCEPT ![p] = kindIdx[p] + 1]
  /\ failed' = [failed EXCEPT ![p] = @ \cup {poolIdx[p]}]
  /\ raisedRun' = [raisedRun EXCEPT ![p] = TRUE]
  /\ UNCHANGED <<storeVars, readVars, runs, atStart, lastHead, gsbHead, attempted,
                 windowsDone, windows, gaps, storageErr, pc, pools, current_block, row,
                 from_block, start, end, poolIdx, queue, pendLiq, pendSwaps, pendClaims>>

\* index_pool_events: to_checksum_address or get_logs raises
FetchLogsRaises(p) ==
  /\ pc[p] = "index"
  /\ queue[p] = <<>>
  /\ kindIdx[p] <= Len(Kinds)
  /\ ExceptInPool(p)
  /\ UNCHANGED storageErr

\* index_pool_events: get_block_timestamp or the INSERT raises
InsertEventRaises(p) ==
  /\ pc[p] = "index"
  /\ queue[p] # <<>>
  /\ ExceptInPool(p)
  /\ UNCHANGED storageErr

\* index_pool_events: a storage operation raises sqlite3.Error (the database
\* is locked, the disk is full): an INSERT, or the commit after the four
\* kinds. The except clause of main catches it like any other exception, and
\* the transaction stays open.
StorageRaisesInPool(p) ==
  /\ pc[p] = "index"
  /\ queue[p] # <<>> \/ kindIdx[p] > Len(Kinds)
  /\ ExceptInPool(p)
  /\ storageErr' = [storageErr EXCEPT ![p] = TRUE]

\* the run ends before its time: update_last_block raises sqlite3.Error, which
\* nothing catches, or the process is interrupted or killed at any point after
\* it opened the store. The connection goes away with its open transaction,
\* whose rows are rolled back.
AbortRun(p) ==
  /\ pc[p] \in {"main_head", "gsb_select", "gsb_head", "check", "index", "update"}
  /\ pc' = [pc EXCEPT ![p] = "aborted"]
  /\ pendLiq' = [pendLiq EXCEPT ![p] = <<>>]
  /\ pendSwaps' = [pendSwaps EXCEPT ![p] = <<>>]
  /\ pendClaims' = [pendClaims EXCEPT ![p] = <<>>]
  /\ queue' = [queue EXCEPT ![p] = <<>>]
  /\ UNCHANGED <<storeVars, readVars, histVars, pools, current_block, row, from_block,
                 start, end, poolIdx, kindIdx>>

\* main: update_last_block(conn, end): INSERT OR REPLACE and conn.commit(),
\* which commits whatever the connection holds; then the next window, or
\* conn.close() and return after the last one
UpdateLastBlock(p) ==
  /\ pc[p] = "update"
  /\ indexer_state' = ReplaceState(indexer_state, end[p])
  /\ pool_liquidity_events' = CommitRows(pool_liquidity_events, pendLiq[p])
  /\ pool_swaps' = CommitRows(pool_swaps, pendSwaps[p])
  /\ pool_fee_claims' = CommitRows(pool_fee_claims, pendClaims[p])
  /\ pendLiq' = [pendLiq EXCEPT ![p] = <<>>]
  /\ pendSwaps' = [pendSwaps EXCEPT ![p] = <<>>]
  /\ pendClaims' = [pendClaims EXCEPT ![p] = <<>>]
  /\ windowsDone' = [windowsDone EXCEPT ![p] = @ + 1]
  /\ windows' = [windows EXCEPT ![p] = Append(@, [start |-> start[p], end |-> end[p]])]
  /\ storageErr' = [storageErr EXCEPT ![p] = FALSE]
  /\ LET raised == {Lower(pools[p][i]) : i \in failed[p]}
     IN gaps' = {g \in gaps : g.pool \notin raised}
                  \cup {[pool |-> a, start |-> start[p], end |-> end[p],
                         last |-> ~HasNextWindow(start[p], current_block[p])] :
                          a \in raised}
  /\ IF HasNextWindow(start[p], current_block[p])
     THEN /\ start' = [start EXCEPT ![p] = start[p] + STEP]
          /\ end' = [end EXCEPT ![p] = WindowEnd(start[p] + STEP, current_block[p])]
          /\ pc' = [pc EXCEPT ![p] = IF Len(pools[p]) = 0 THEN "update" ELSE "index"]
          /\ attempted' = [attempted EXCEPT ![p] = {}]
          /\ failed' = [failed EXCEPT ![p] = {}]
     ELSE /\ pc' = [pc EXCEPT ![p] = "done"]
          /\ UNCHANGED <<start, end, attempted, failed>>
  /\ poolIdx' = [poolIdx EXCEPT ![p] = 1]
  /\ UNCHANGED <<readVars, runs, atStart, lastHead, gsbHead, raisedRun, pools,
                 current_block, row, from_block, kindIdx, queue>>

\* one step of scanner process p against a node reporting one of heights to
\* main and one of seedHeights to get_start_block
Scanner(p, heights, seedHeights) ==
  \/ StartRun(p)
  \/ MainReadHead(p, heights)
  \/ MainReadHeadRaises(p)
  \/ GsbSelect(p)
  \/ GsbReadHead(p, seedHeights)
  \/ GsbReadHeadRaises(p)
  \/ CheckNewBlocks(p)
  \/ FetchLogs(p)
  \/ FetchLogsRaises(p)
  \/ InsertEvent(p)
  \/ InsertEventRaises(p)
  \/ CommitPool(p)
  \/ UpdateLastBlock(p)

(***************************************************************************)
(* pool_events_reader.py                                                   *)
(***************************************************************************)
\* token contracts and the value their decimals() returns when the call succeeds
TokenX == <<"a", "1">>
TokenY == <<"B", "2">>
Tokens == {TokenX, TokenY}

OnChainDecimals(addr) == IF addr = ToChecksumAddress(TokenX) THEN 6 ELSE 18

\* what contract.functions.decimals().call() does: its value, or it raises
Raises == 0 - 1
CallOutcomes(addr) == {OnChainDecimals(addr), Raises}

\* inputs of the queries: the clock is read in whole seconds
QueryPools == {PoolA, PoolB}
LookbackDays == {1, 7}
LookbackHours == {24, 48}
Nows == {100000}
TokenPairs == {<<TokenX, TokenY>>, <<TokenY, TokenX>>, <<TokenX, TokenX>>}

\* datetime.utcfromtimestamp(ts): a naive datetime holding the UTC wall clock
UtcFromTimestamp(ts) ==
  [day |-> ts \div 86400,
   hour |-> (ts % 86400) \div 3600,
   minute |-> (ts % 3600) \div 60,
   second |-> ts % 60]

\* datetime.utcnow() - timedelta(days, hours): the UTC wall clock that long ago
UtcNowMinus(now, days, hours) == UtcFromTimestamp(now - days * 86400 - hours * 3600)

\* naive.timestamp(): a naive datetime is taken as LOCAL wall-clock time, so
\* the epoch value is the wall clock's seconds minus the host's UTC offset
NaiveTimestamp(dt, offset) ==
  dt.day * 86400 + dt.hour * 3600 + dt.minute * 60 + dt.second - offset

\* since_ts = int((datetime.utcnow() - timedelta(days=lookback_days)).timestamp())
SinceTs(now, lookback_days, offset) ==
  NaiveTimestamp(UtcNowMinus(now, lookback_days, 0), offset)

\* variant of TruncateToHour: only the seconds are cleared
TruncateToMinute(dt) == [dt EXCEPT !.second = 0]

\* dt.replace(minute=0, second=0, microsecond=0)
TruncateToHour(dt) == [dt EXCEPT !.minute = 0, !.second = 0]

\* the order of naive datetimes
DatetimeKey(dt) == ((dt.day * 24 + dt.hour) * 60 + dt.minute) * 60 + dt.second

\* ORDER BY block_time ASC over rows scanned in id order: rows of equal
\* block_time keep their id order
RECURSIVE InsertByBlockTime(_, _)
InsertByBlockTime(sorted, r) ==
  IF sorted = <<>> THEN <<r>>
  ELSE IF sorted[Len(sorted)].block_time <= r.block_time THEN Append(sorted, r)
  ELSE Append(InsertByBlockTime(SubSeq(sorted, 1, Len(sorted) - 1), r),
              sorted[Len(sorted)])

RECURSIVE OrderByBlockTime(_)
OrderByBlockTime(rows) ==
  IF rows = <<>> THEN <<>>
  ELSE InsertByBlockTime(OrderByBlockTime(SubSeq(rows, 1, Len(rows) - 1)),
                         rows[Len(rows)])

\* SELECT ... WHERE pool_address = ? AND block_time >= ? ORDER BY block_time ASC
SelectWindow(table, pool_lower, since_ts) ==
  LET InWindow(r) == r.pool_address = pool_lower /\ r.block_time >= since_ts
  IN OrderByBlockTime(SelectSeq(table, InWindow))

\* get_liquidity_timeseries: the replay loop from balances (t0, t1)
RECURSIVE Replay(_, _, _)
Replay(rows, t0, t1) ==
  IF rows = <<>> THEN <<>>
  ELSE LET r == Head(rows)
           amt0 == ToInt(r.token0_amount)
           amt1 == ToInt(r.token1_amount)
           n0 == IF r.event_type = "ADD" THEN t0 + amt0 ELSE t0 - amt0
           n1 == IF r.event_type = "ADD" THEN t1 + amt1 ELSE t1 - amt1
       IN <<[time |-> UtcFromTimestamp(r.block_time),
             token0_balance |-> n0,
             token1_balance |-> n1]>> \o Replay(Tail(rows), n0, n1)

\* get_liquidity_timeseries(pool_address, lookback_days) called at time now
get_liquidity_timeseries(table, pool_address, lookback_days, now, offset) ==
  LET since_ts == SinceTs(now, lookback_days, offset)
      pool_lower == Lower(pool_address)
      rows == SelectWindow(table, pool_lower, since_ts)
  IN Replay(rows, 0, 0)

\* variant of DecimalsOf: a failed call yields 0 decimals
DecimalsOfNoFallback(outcome) == IF outcome = Raises THEN 0 ELSE outcome

\* get_token_decimals: the value cached and returned after the call's outcome
DecimalsOf(outcome) == IF outcome = Raises THEN FALLBACK_DECIMALS ELSE outcome

\* variant of get_token_decimals: a failed call is not cached
get_token_decimalsRetriesAfterFailure(cache, token_address, outcome) ==
  LET addr == ToChecksumAddress(token_address)
  IN IF addr \in DOMAIN cache
     THEN [value |-> cache[addr], cache |-> cache, calls |-> <<>>]
     ELSE [value |-> DecimalsOf(outcome),
           cache |-> IF outcome = Raises THEN cache
                     ELSE (addr :> DecimalsOf(outcome)) @@ cache,
           calls |-> <<[token |-> addr, outcome |-> outcome]>>]

\* get_token_decimals(token_address) with the given cache: the value returned,
\* the cache afterwards and the contract calls made
get_token_decimals(cache, token_address, outcome) ==
  LET addr == ToChecksumAddress(token_address)
  IN IF addr \in DOMAIN cache
     THEN [value |-> cache[addr], cache |-> cache, calls |-> <<>>]
     ELSE [value |-> DecimalsOf(outcome),
           cache |-> (addr :> DecimalsOf(outcome)) @@ cache,
           calls |-> <<[token |-> addr, outcome |-> outcome]>>]

\* n / 10**dec: the float quotient of an integer by a power of ten, kept as
\* the pair it is computed from
Quotient(n, dec) == [num |-> n, pow10 |-> dec]

\* variant of VolumeRecord: each token's amount is divided by the other
\* token's scale
VolumeRecordSwappedScales(r, dec0, dec1) ==
  [time |-> TruncateToHour(UtcFromTimestamp(r.block_time)),
   token0_volume |-> Quotient(ToInt(r.amount0_in) + ToInt(r.amount0_out), dec1),
   token1_volume |-> Quotient(ToInt(r.amount1_in) + ToInt(r.amount1_out), dec0)]

\* get_swap_volume_timeseries: the records list, one per selected row
VolumeRecord(r, dec0, dec1) ==
  [time |-> TruncateToHour(UtcFromTimestamp(r.block_time)),
   token0_volume |-> Quotient(ToInt(r.amount0_in) + ToInt(r.amount0_out), dec0),
   token1_volume |-> Quotient(ToInt(r.amount1_in) + ToInt(r.amount1_out), dec1)]

\* the keys of groupby("time"), ascending
RECURSIVE SortedTimes(_)
SortedTimes(times) ==
  IF times = {} THEN <<>>
  ELSE LET first == CHOOSE t \in times :
                      \A u \in times : DatetimeKey(t) <= DatetimeKey(u)
       IN <<first>> \o SortedTimes(times \ {first})

\* the float sum of a group's column: the addends in row order
ColumnSum(records, time, column) ==
  LET InGroup(rec) == rec.time = time
      group == SelectSeq(records, InGroup)
  IN [i \in DOMAIN group |-> group[i][column]]

\* df.groupby("time", as_index=False)[[...]].sum(): one row per key, keys sorted
GroupByTimeSum(records) ==
  LET keys == SortedTimes({records[i].time : i \in DOMAIN records})
  IN [k \in DOMAIN keys |->
        [time |-> keys[k],
         token0_volume |-> ColumnSum(records, keys[k], "token0_volume"),
         token1_volume |-> ColumnSum(records, keys[k], "token1_volume")]]

\* get_swap_volume_timeseries(pool_address, token0_address, token1_address,
\* lookback_days) called at time now: the frame returned, the cache afterwards
\* and the contract calls made
get_swap_volume_timeseries(table, cache, pool_address, token0_address, token1_address, lookback_days, now, offset, outcome0, outcome1) ==
  LET since_ts == SinceTs(now, lookback_days, offset)
      pool_lower == Lower(pool_address)
      rows == SelectWindow(table, pool_lower, since_ts)
      d0 == get_token_decimals(cache, token0_address, outcome0)
      d1 == get_token_decimals(d0.cache, token1_address, outcome1)
      records == [i \in DOMAIN rows |-> VolumeRecord(rows[i], d0.value, d1.value)]
  IN IF rows = <<>>
     THEN [result |-> <<>>, cache |-> cache, calls |-> <<>>]
     ELSE [result |-> GroupByTimeSum(records), cache |-> d1.cache,
           calls |-> d0.calls \o d1.calls, dec0 |-> d0.value, dec1 |-> d1.value]

\* variant of QueryLiquidity: the query deletes the liquidity rows of the pool
\* that are older than its window
QueryLiquidityPrunes(poolSet, daySet) ==
  /\ \E pool_address \in poolSet, lookback_days \in daySet, now \in Nows :
       LET Kept(r) == \/ r.pool_address # Lower(pool_address)
                      \/ r.block_time >= now - lookback_days * 86400
       IN /\ query' = [fn |-> "get_liquidity_timeseries",
                       pool_address |-> pool_address,
                       lookback_days |-> lookback_days,
                       now |-> now,
                       result |-> get_liquidity_timeseries(pool_liquidity_events,
                                    pool_address, lookback_days, now, utcOffset)]
          /\ pool_liquidity_events' = SelectSeq(pool_liquidity_events, Kept)
  /\ UNCHANGED <<pool_swaps, pool_fee_claims, indexer_state, scanVars, histVars,
                 decimals_cache, utcOffset>>

\* a caller runs get_liquidity_timeseries with a pool and a lookback of the
\* given sets
QueryLiquidity(poolSet, daySet) ==
  /\ \E pool_address \in poolSet, lookback_days \in daySet, now \in Nows :
       query' = [fn |-> "get_liquidity_timeseries",
                 pool_address |-> pool_address,
                 lookback_days |-> lookback_days,
                 now |-> now,
                 result |-> get_liquidity_timeseries(pool_liquidity_events, pool_address,
                                                     lookback_days, now, utcOffset)]
  /\ UNCHANGED <<storeVars, scanVars, histVars, decimals_cache, utcOffset>>

\* a caller runs get_swap_volume_timeseries with a pool, a token pair and a
\* lookback of the given sets; a decimals() call it makes returns the token's
\* decimals or raises
QuerySwapVolume(poolSet, pairSet, daySet) ==
  /\ \E pool_address \in poolSet, pair \in pairSet, lookback_days \in daySet,
        now \in Nows :
       \E o0 \in CallOutcomes(ToChecksumAddress(pair[1])),
          o1 \in CallOutcomes(ToChecksumAddress(pair[2])) :
         LET token0 == pair[1]
             token1 == pair[2]
             out == get_swap_volume_timeseries(pool_swaps, decimals_cache, pool_address,
                                               token0, token1, lookback_days, now,
                                               utcOffset, o0, o1)
         IN /\ query' = [fn |-> "get_swap_volume_timeseries",
                         pool_address |-> pool_address,
                         token0_address |-> token0,
                         token1_address |-> token1,
                         lookback_days |-> lookback_days,
                         now |-> now,
                         cacheBefore |-> decimals_cache,
                         calls |-> out.calls,
                         result |-> out.result]
            /\ decimals_cache' = out.cache
  /\ UNCHANGED <<storeVars, scanVars, histVars, utcOffset>>

\* str(n) for a Python int of either sign
IntStr(n) == IF n < 0 THEN <<"-">> \o ToStr(0 - n) ELSE ToStr(n)

\* since_ts = int((datetime.utcnow() - timedelta(hours=lookback_hours)).timestamp())
SinceTsHours(now, lookback_hours, offset) ==
  NaiveTimestamp(UtcNowMinus(now, 0, lookback_hours), offset)

\* SELECT ... WHERE <match> AND block_time >= ? ORDER BY block_time DESC LIMIT 1;
\* fetchone() over the rows that match the other WHERE terms: no row, or a row
\* of the greatest block_time (SQL leaves open which one when several rows
\* share it). An Optional value is a sequence of length 0 (None) or 1.
FetchLatest(matching, since_ts) ==
  LET InWindow(r) == r.block_time >= since_ts
      found == SelectSeq(matching, InWindow)
      latest == {i \in DOMAIN found :
                   \A j \in DOMAIN found : found[j].block_time <= found[i].block_time}
  IN IF found = <<>> THEN {<<>>} ELSE {<<found[i]>> : i \in latest}

\* get_recent_activity.fmt: None for no row, else the f-string
\* "{label}: token0 {t0} / token1 {t1} by {who} ({hours_ago}h ago)"
fmt(found, label, token0_key, token1_key, who_key, now) ==
  IF found = <<>> THEN <<>>
  ELSE LET r == found[1]
           age == DatetimeKey(UtcFromTimestamp(now))
                    - DatetimeKey(UtcFromTimestamp(r.block_time))
           hours_ago == age \div 3600
       IN << <<label, ": token0 ">> \o r[token0_key] \o <<" / token1 ">>
             \o r[token1_key] \o <<" by ", r[who_key], " (">> \o IntStr(hours_ago)
             \o <<"h ago)">> >>

\* get_recent_activity(pool_address, lookback_hours) called at time now: the
\* RecentActivity values it may return
get_recent_activity(liq, claims, pool_address, lookback_hours, now, offset) ==
  LET since_ts == SinceTsHours(now, lookback_hours, offset)
      pool_lower == Lower(pool_address)
      IsAdd(r) == r.pool_address = pool_lower /\ r.event_type = "ADD"
      IsRemove(r) == r.pool_address = pool_lower /\ r.event_type = "REMOVE"
      IsClaim(r) == r.pool_address = pool_lower
  IN {[pool_address |-> pool_address,
       latest_add |-> fmt(add_row, "Liquidity Added", "token0_amount",
                          "token1_amount", "provider_address", now),
       latest_remove |-> fmt(remove_row, "Liquidity Removed", "token0_amount",
                             "token1_amount", "provider_address", now),
       latest_claim |-> fmt(claim_row, "Fees Claimed", "token0_fee", "token1_fee",
                            "sender", now)] :
        add_row \in FetchLatest(SelectSeq(liq, IsAdd), since_ts),
        remove_row \in FetchLatest(SelectSeq(liq, IsRemove), since_ts),
        claim_row \in FetchLatest(SelectSeq(claims, IsClaim), since_ts)}

\* a caller runs get_recent_activity with a pool and a lookback of the given sets
QueryRecentActivity(poolSet, hourSet) ==
  /\ \E pool_address \in poolSet, lookback_hours \in hourSet, now \in Nows :
       \E activity \in get_recent_activity(pool_liquidity_events, pool_fee_claims,
                                           pool_address, lookback_hours, now, utcOffset) :
         query' = [fn |-> "get_recent_activity",
                   pool_address |-> pool_address,
                   lookback_hours |-> lookback_hours,
                   now |-> now,
                   result |-> activity]
  /\ UNCHANGED <<storeVars, scanVars, histVars, decimals_cache, utcOffset>>

\* sequential scanner runs on one store
Next == Scanner(1, Heads, Heads \cup BoundaryHeads)

Spec == Init /\ [][Next]_vars

(***************************************************************************)
(* Stores the reader specifications start from: rows as the scanner writes *)
(* them, for logs of either pool at blocks around the start of a one-day   *)
(* window.                                                                 *)
(***************************************************************************)
RECURSIVE SeqsUpTo(_, _)
SeqsUpTo(S, n) ==
  IF n = 0 THEN {<<>>}
  ELSE LET shorter == SeqsUpTo(S, n - 1)
       IN shorter \cup {Append(q, x) : q \in {t \in shorter : Len(t) = n - 1}, x \in S}

ReaderBlocks == {5400, 6300, 7200}
ReaderPools == {PoolA, PoolB}

LiquidityRows ==
  {LiquidityRow(pool, type,
                ChainLog(Lower(pool), "Mint", b, 0, <<b % 256>>, LiqArgs("lp1", a[1], a[2])),
                ChainTimestamp(b)) :
     pool \in ReaderPools, type \in {"ADD", "REMOVE"},
     a \in {<<1000, 2000>>, <<400, 500>>}, b \in ReaderBlocks}

\* the swap found at a block: token0 in at the middle block, token1 in at the others
SwapArgsAt(b) ==
  IF b = 6300 THEN SwapArgs("tr1", 30, 0, 0, 7) ELSE SwapArgs("tr2", 0, 12, 5, 0)

SwapRows ==
  {SwapRow(pool, ChainLog(Lower(pool), "Swap", b, 0, <<b % 256>>, SwapArgsAt(b)),
           ChainTimestamp(b)) :
     pool \in ReaderPools, b \in ReaderBlocks}

\* a store holding liquidity rows only, read by a fresh reader process
InitLiquidity ==
  /\ pool_liquidity_events \in SeqsUpTo(LiquidityRows, MaxRows)
  /\ pool_swaps = <<>>
  /\ pool_fee_claims = <<>>
  /\ indexer_state = <<9000>>
  /\ InitScanner
  /\ InitHistory
  /\ decimals_cache = <<>>
  /\ utcOffset \in UtcOffsets
  /\ query = NoQuery

NextLiquidity == QueryLiquidity(QueryPools, LookbackDays)

SpecLiquidity == InitLiquidity /\ [][NextLiquidity]_vars

\* a store holding swap rows only, read by a fresh reader process
InitVolume ==
  /\ pool_liquidity_events = <<>>
  /\ pool_swaps \in SeqsUpTo(SwapRows, MaxRows)
  /\ pool_fee_claims = <<>>
  /\ indexer_state = <<9000>>
  /\ InitScanner
  /\ InitHistory
  /\ decimals_cache = <<>>
  /\ utcOffset \in UtcOffsets
  /\ query = NoQuery

NextVolume == QuerySwapVolume({PoolA}, TokenPairs, {1})

SpecVolume == InitVolume /\ [][NextVolume]_vars

ClaimRows ==
  {ClaimRow(pool, ChainLog(Lower(pool), "Claim", b, 0, <<b % 256>>, ClaimArgs("lp1", 3, 4)),
            ChainTimestamp(b)) :
     pool \in ReaderPools, b \in ReaderBlocks}

\* the liquidity rows of one pair of amounts
PlainLiquidityRows == {r \in LiquidityRows : r.token0_amount = ToStr(400)}

\* rows of the three event tables, each with its table
TableRows ==
  ({"pool_liquidity_events"} \X PlainLiquidityRows)
    \cup ({"pool_swaps"} \X SwapRows)
    \cup ({"pool_fee_claims"} \X ClaimRows)

\* the rows of one table among inserted rows, in insertion order
RowsOf(inserted, table) ==
  LET OfTable(x) == x[1] = table
      mine == SelectSeq(inserted, OfTable)
  IN [i \in DOMAIN mine |-> mine[i][2]]

\* a store holding rows of all three tables, read by a fresh reader process
InitReader ==
  /\ \E inserted \in SeqsUpTo(TableRows, MaxRows) :
       /\ pool_liquidity_events = RowsOf(inserted, "pool_liquidity_events")
       /\ pool_swaps = RowsOf(inserted, "pool_swaps")
       /\ pool_fee_claims = RowsOf(inserted, "pool_fee_claims")
  /\ indexer_state = <<9000>>
  /\ InitScanner
  /\ InitHistory
  /\ decimals_cache = <<>>
  /\ utcOffset \in UtcOffsets
  /\ query = NoQuery

NextReader ==
  \/ QueryRecentActivity(QueryPools, LookbackHours)
  \/ QueryLiquidity({PoolA}, {1})
  \/ QuerySwapVolume({PoolA}, {<<TokenX, TokenY>>}, {1})

SpecReader == InitReader /\ [][NextReader]_vars

\* scanner runs (one fewer than in Spec) against a node at low heights,
\* interleaved with reader queries
SmallHeads == {3000, 9000}

NextReadWrite ==
  \/ Scanner(1, SmallHeads, SmallHeads) /\ runs' < MaxRuns
  \/ QueryLiquidity({PoolA}, {7})
  \/ QuerySwapVolume({PoolA}, {<<TokenX, TokenY>>}, {7})

SpecReadWrite == Init /\ [][NextReadWrite]_vars

\* sequential scanner runs in which every call of a started run returns (with
\* its value, or by raising): main is one thread of blocking calls, so a run
\* that has started goes on to its next statement until it returns
LiveHeads == {3000, 9000, 12000}

InRun(p) == pc[p] \notin {"idle", "done", "head_failed"}

NextLive == Scanner(1, LiveHeads, LiveHeads)

SpecLive == Init /\ [][NextLive]_vars /\ WF_vars(InRun(1) /\ NextLive)

\* scanner runs against a node at one height, interleaved with the three
\* reader queries over a one-day window
QueryHead == {9000}

NextQueries ==
  \/ Scanner(1, QueryHead, QueryHead)
  \/ QueryRecentActivity({PoolA}, {24})
  \/ QueryLiquidity({PoolA}, {1})
  \/ QuerySwapVolume({PoolA}, {<<TokenX, TokenY>>}, {1})

SpecQueries == Init /\ [][NextQueries]_vars

\* two scanner processes on one store, not serialized, one run each. Each has its own
\* connection; SQLite lets one connection at a time hold a write transaction
\* (from its first INSERT to its commit), so a step that writes is taken when
\* no other connection has uncommitted rows. A writer that finds the lock
\* taken waits, or gives up by raising (InsertEventRaises).
\* the connection of process p holds no uncommitted row
NothingPending(p) == pendLiq[p] = <<>> /\ pendSwaps[p] = <<>> /\ pendClaims[p] = <<>>

WriteLockFree(p) == \A q \in Procs \ {p} : NothingPending(q)

WritesStore(p) ==
  \/ storeVars' # storeVars
  \/ pendLiq'[p] # pendLiq[p]
  \/ pendSwaps'[p] # pendSwaps[p]
  \/ pendClaims'[p] # pendClaims[p]

\* main is started once in each process, from the command line (pools = None)
FirstRun(p) == pc'[p] = "main_head" => pc[p] = "idle" /\ pools'[p] = DEFAULT_POOLS

NextConcurrent ==
  \E p \in Procs :
    /\ Scanner(p, QueryHead, QueryHead)
    /\ FirstRun(p)
    /\ WritesStore(p) => WriteLockFree(p)

SpecConcurrent == Init /\ [][NextConcurrent]_vars

\* sequential scanner runs in which storage operations may raise and a run
\* may end before its time
NextFaults ==
  \/ Scanner(1, QueryHead, QueryHead)
  \/ StorageRaisesInPool(1)
  \/ AbortRun(1)

SpecFaults == Init /\ [][NextFaults]_vars

\* one scanner run and reader queries in which a pool's address is spelled
\* in other letter cases as well
PoolASpellings == {PoolA, <<"9", "d", "a">>, <<"9", "D", "A">>}
CaseInputs == {<<a>> : a \in PoolASpellings}

NextCase ==
  \/ Scanner(1, QueryHead, QueryHead) /\ runs' <= 1
  \/ StartRunWith(1, CaseInputs) /\ runs' <= 1
  \/ QueryRecentActivity(PoolASpellings, {48})
  \/ QueryLiquidity(PoolASpellings, {7})
  \/ QuerySwapVolume(PoolASpellings, {<<TokenX, TokenY>>}, {7})

SpecCase == Init /\ [][NextCase]_vars

(***************************************************************************)
(* Properties of the scanner.                                              *)
(***************************************************************************)
IsPrefix(a, b) == Len(a) <= Len(b) /\ SubSeq(b, 1, Len(a)) = a

\* the run of process 1 read the head that its previous run, which returned
\* normally, had read
SameHeadAsLastRun ==
  /\ pc[1] \in {"gsb_select", "gsb_head", "check", "index", "update", "done"}
  /\ lastHead[1] # None
  /\ current_block[1] = lastHead[1]

\* C1: idempotent resumption. In a run whose chain head equals the head of the
\* previous run (which returned normally, whatever pools raised in it), no step
\* inserts a row into any of the three event tables, none becomes durable, and
\* the indexer_state row is left as it is.
IdempotentResumption ==
  [][SameHeadAsLastRun =>
       /\ storeVars' = storeVars
       /\ pendLiq'[1] = <<>> /\ pendSwaps'[1] = <<>> /\ pendClaims'[1] = <<>>]_vars

\* a second run over the same head 9000 has ended, with event rows in the store
IdempotentResumptionWitness ==
  /\ SameHeadAsLastRun
  /\ pc[1] = "done"
  /\ runs >= 2
  /\ current_block[1] = 9000
  /\ Len(pool_liquidity_events) > 0
  /\ Len(pool_fee_claims) > 0

\* C2: monotonic checkpoint. Every step that leaves an indexer_state row in
\* place of an earlier one stores a last_block greater than or equal to the
\* one it replaces, and the row is never removed.
MonotonicCheckpoint ==
  [][indexer_state # <<>> =>
       indexer_state' # <<>> /\ indexer_state'[1] >= indexer_state[1]]_vars

\* a run has ended whose head (3000) was lower than the stored checkpoint
MonotonicCheckpointWitness ==
  /\ pc[1] = "done"
  /\ runs >= 2
  /\ current_block[1] = 3000
  /\ indexer_state # <<>>
  /\ indexer_state[1] > 3000

\* C3: checkpoint bootstrap. When get_start_block returns after finding no
\* row and reading head H, indexer_state holds max(0, H - 200000), which is
\* the start block, no window has been processed, and the seed is 0 only if
\* H <= 200000; after finding a row, the start block is the stored value and
\* the row is the one the run started with. No window is entered without a
\* checkpoint row.
CheckpointBootstrap ==
  /\ pc[1] = "check" /\ row[1] = None =>
       LET H == gsbHead[1]
           seed == IF H > 200000 THEN H - 200000 ELSE 0
       IN /\ indexer_state = <<seed>>
          /\ from_block[1] = seed
          /\ windowsDone[1] = 0
          /\ (seed = 0 => H <= 200000)
  /\ pc[1] = "check" /\ row[1] # None =>
       /\ from_block[1] = row[1]
       /\ indexer_state = <<row[1]>>
       /\ indexer_state = atStart[1].state
  /\ pc[1] \in {"index", "update"} => indexer_state # <<>>

\* a first run read head 203000 in get_start_block and seeded block 3000
CheckpointBootstrapWitness ==
  /\ pc[1] = "check"
  /\ row[1] = None
  /\ gsbHead[1] = 203000
  /\ indexer_state = <<3000>>

\* C4: unconditional checkpoint advancement. When update_last_block is
\* reached every pool of the list has been attempted in the window, whether or
\* not some raised; after each window last_block is that window's end; and a
\* run that entered the loop ends with every window of its range done and
\* last_block at the head it read.
UnconditionalAdvance ==
  /\ pc[1] = "update" => attempted[1] = 1..Len(pools[1])
  /\ pc[1] = "index" /\ windowsDone[1] > 0 => indexer_state = <<start[1] - 1>>
  /\ pc[1] = "done" /\ windowsDone[1] > 0 =>
       /\ indexer_state = <<end[1]>>
       /\ end[1] = current_block[1]
       /\ windowsDone[1] = ((current_block[1] - from_block[1]) \div 5000) + 1

\* in a second or later window the first pool raised and the second was still
\* attempted, after another pool had raised in an earlier window
UnconditionalAdvanceWitness ==
  /\ pc[1] = "update"
  /\ windowsDone[1] >= 1
  /\ Len(pools[1]) = 2
  /\ failed[1] = {1}
  /\ attempted[1] = {1, 2}

\* C5: chain-head failure. A run that ended because reading the block
\* height raised (in main or in get_start_block) processed no window, holds
\* no inserted row, and left the three event tables and indexer_state exactly
\* as they were when it started.
HeadFailureNoEffect ==
  pc[1] = "head_failed" =>
    /\ Store = atStart[1]
    /\ windowsDone[1] = 0
    /\ NothingPending(1)

\* get_start_block's read raised on a database with no checkpoint row yet
HeadFailureNoEffectWitness ==
  /\ pc[1] = "head_failed"
  /\ current_block[1] # None
  /\ row[1] = None
  /\ indexer_state = <<>>

\* C6: append-only event log. In every step each event table keeps all its
\* durable rows, in place and with every field unchanged: the table before
\* the step is a prefix of the table after it.
AppendOnly ==
  [][/\ IsPrefix(pool_liquidity_events, pool_liquidity_events')
     /\ IsPrefix(pool_swaps, pool_swaps')
     /\ IsPrefix(pool_fee_claims, pool_fee_claims')]_vars

\* a later run has added rows after those of an earlier run, and a query ran
AppendOnlyWitness ==
  /\ runs >= 2
  /\ pc[1] = "done"
  /\ Len(pool_liquidity_events) >= 3
  /\ Len(atStart[1].liq) >= 2
  /\ query # NoQuery

\* C13: run completion. A run that found last_block < H, with H the head
\* main read, goes on (every call returning, pools raising or not) until it
\* returns, and when it returns indexer_state holds H and at least one window
\* was processed.
RunCompletion ==
  \A n \in 1..MaxRuns :
    (runs = n /\ pc[1] = "check" /\ from_block[1] < current_block[1])
      ~> (/\ runs = n
          /\ pc[1] = "done"
          /\ windowsDone[1] >= 1
          /\ indexer_state = <<current_block[1]>>)

\* a run over three windows, in which a pool raised, has returned with
\* last_block at its head 12000
RunCompletionWitness ==
  /\ pc[1] = "done"
  /\ current_block[1] = 12000
  /\ windowsDone[1] = 3
  /\ raisedRun[1]
  /\ indexer_state = <<12000>>

\* a row of the log's table holds the log: among the committed rows, or among
\* those and the rows process 1 has inserted and not committed
HoldsLog(rows, l) ==
  \E i \in DOMAIN rows :
    rows[i].tx_hash = Hex(l.transactionHash) /\ rows[i].pool_address = l.address

Committed(l) ==
  CASE l.event \in {"Mint", "Burn"} -> HoldsLog(pool_liquidity_events, l)
    [] l.event = "Swap" -> HoldsLog(pool_swaps, l)
    [] l.event = "Claim" -> HoldsLog(pool_fee_claims, l)

Stored(l) ==
  CASE l.event \in {"Mint", "Burn"} -> HoldsLog(pool_liquidity_events \o pendLiq[1], l)
    [] l.event = "Swap" -> HoldsLog(pool_swaps \o pendSwaps[1], l)
    [] l.event = "Claim" -> HoldsLog(pool_fee_claims \o pendClaims[1], l)

\* the logs on chain of a pool in blocks from..to
LogsOf(pool_lower, from, to) ==
  {ChainLogs[i] : i \in {j \in DOMAIN ChainLogs :
                           /\ ChainLogs[j].address = pool_lower
                           /\ ChainLogs[j].blockNumber >= from
                           /\ ChainLogs[j].blockNumber <= to}}

\* the step is one in which index_pool_events raised for the current pool
RaisedStep == poolIdx[1] \in failed'[1] /\ poolIdx[1] \notin failed[1]

\* the index in Kinds of the kind whose fetch or decoding is under way
CurrentKind == IF queue[1] = <<>> THEN kindIdx[1] ELSE kindIdx[1] - 1

\* C15, as claimed: per-event-kind isolation. When the fetch or decoding of
\* one kind raises for a pool and kinds remain after it, index_pool_events goes
\* on with the next kind of the same pool in the same window.
PerKindIsolation ==
  [][RaisedStep /\ CurrentKind < Len(Kinds) =>
       /\ pc'[1] = "index"
       /\ poolIdx'[1] = poolIdx[1]
       /\ kindIdx'[1] = CurrentKind + 1]_vars

\* C15, amended: per-pool isolation. A raise ends the indexing of that pool in
\* that window: the loop moves to the next pool, a pool that raised is not
\* fetched again in the window, every pool of the list is attempted before the
\* checkpoint write, and every log in the window of a pool that did not raise
\* is a committed row.
PerPoolIsolation ==
  /\ [][RaisedStep =>
          /\ poolIdx'[1] = poolIdx[1] + 1
          /\ kindIdx'[1] = 1
          /\ queue'[1] = <<>>
          /\ start'[1] = start[1] /\ end'[1] = end[1]]_vars
  /\ [](pc[1] = "index" => poolIdx[1] \notin failed[1] \cup attempted[1])
  /\ [](pc[1] = "update" =>
          /\ attempted[1] = 1..Len(pools[1])
          /\ \A i \in attempted[1] \ failed[1] :
               \A l \in LogsOf(Lower(pools[1][i]), start[1], end[1]) : Committed(l))

\* in window 0..3000 the Burn fetch of the first pool raised after its Mint
\* row was inserted: its Burn and Swap were not fetched, and the second pool's
\* Swap is a committed row
PerPoolIsolationWitness ==
  /\ pc[1] = "update"
  /\ Len(pools[1]) = 2
  /\ failed[1] = {1}
  /\ start[1] = 0 /\ end[1] = 3000
  /\ Stored(ChainLogs[1])
  /\ ~Stored(ChainLogs[2])
  /\ ~Stored(ChainLogs[3])
  /\ Committed(ChainLogs[4])

\* the rows a table gained in the current run of process 1, inserted ones included
NewRows(table, before, pending) == SubSeq(table, Len(before) + 1, Len(table)) \o pending

\* among the rows that satisfy Sel, block_number never decreases
NonDecreasing(rows, Sel(_)) ==
  \A i, j \in DOMAIN rows :
    i < j /\ Sel(rows[i]) /\ Sel(rows[j]) => rows[i].block_number <= rows[j].block_number

RunPools == {Lower(DEFAULT_POOLS[i]) : i \in DOMAIN DEFAULT_POOLS}

\* C16, as claimed: insertion order. In a run, for each pool, the rows appended
\* to each event table (the liquidity table with its ADD and REMOVE rows
\* together) have non-decreasing block_number in insertion order.
InsertionOrder ==
  runs >= 1 =>
    \A a \in RunPools :
      LET OfPool(r) == r.pool_address = a
      IN /\ NonDecreasing(NewRows(pool_liquidity_events, atStart[1].liq, pendLiq[1]), OfPool)
         /\ NonDecreasing(NewRows(pool_swaps, atStart[1].swaps, pendSwaps[1]), OfPool)
         /\ NonDecreasing(NewRows(pool_fee_claims, atStart[1].claims, pendClaims[1]), OfPool)

\* C16, amended: insertion order per event kind. In a run, for each pool, the
\* ADD rows, the REMOVE rows, the swap rows and the fee-claim rows appended
\* each have non-decreasing block_number in insertion order.
InsertionOrderPerKind ==
  runs >= 1 =>
    \A a \in RunPools :
      LET OfPool(r) == r.pool_address = a
          IsAdd(r) == r.pool_address = a /\ r.event_type = "ADD"
          IsRemove(r) == r.pool_address = a /\ r.event_type = "REMOVE"
      IN /\ NonDecreasing(NewRows(pool_liquidity_events, atStart[1].liq, pendLiq[1]), IsAdd)
         /\ NonDecreasing(NewRows(pool_liquidity_events, atStart[1].liq, pendLiq[1]), IsRemove)
         /\ NonDecreasing(NewRows(pool_swaps, atStart[1].swaps, pendSwaps[1]), OfPool)
         /\ NonDecreasing(NewRows(pool_fee_claims, atStart[1].claims, pendClaims[1]), OfPool)

\* a run over two windows has returned; in its first window it appended the
\* ADD rows of blocks 100 and 4000 and then the REMOVE row of block 3000
InsertionOrderPerKindWitness ==
  /\ pc[1] = "done"
  /\ windowsDone[1] = 2
  /\ LET new == NewRows(pool_liquidity_events, atStart[1].liq, pendLiq[1])
     IN /\ Len(new) = 3
        /\ new[1].block_number = 100 /\ new[1].event_type = "ADD"
        /\ new[2].block_number = 4000 /\ new[2].event_type = "ADD"
        /\ new[3].block_number = 3000 /\ new[3].event_type = "REMOVE"
  /\ Len(pool_fee_claims) >= 1

\* C17: window partition. The windows of a run whose checkpoint was written
\* start at the run's start block, each next one starts right after the one
\* before it (ascending, disjoint, contiguous), all but the last hold exactly
\* 5000 blocks and the last at most 5000, none passes the head H, and a run
\* that entered the loop returns with the last window ending at H; last_block
\* changes during the loop only by one write per window, to that window's end.
WindowPartition ==
  /\ [](LET ws == windows[1]
            n == Len(ws)
            H == current_block[1]
        IN /\ n = windowsDone[1]
           /\ n >= 1 => ws[1].start = from_block[1] /\ indexer_state = <<ws[n].end>>
           /\ \A k \in 1..n :
                /\ ws[k].start <= ws[k].end
                /\ ws[k].end <= H
                /\ ws[k].end - ws[k].start + 1 <= 5000
                /\ k < n => /\ ws[k].end - ws[k].start + 1 = 5000
                            /\ ws[k + 1].start = ws[k].end + 1
           /\ pc[1] = "done" /\ from_block[1] < H => n >= 1 /\ ws[n].end = H
           /\ pc[1] \in {"index", "update"} =>
                /\ start[1] = (IF n = 0 THEN from_block[1] ELSE ws[n].end + 1)
                /\ start[1] <= end[1])
  /\ [][pc[1] \in {"index", "update"} /\ indexer_state' # indexer_state =>
          /\ pc[1] = "update"
          /\ Len(windows'[1]) = Len(windows[1]) + 1
          /\ windows'[1][Len(windows'[1])] = [start |-> start[1], end |-> end[1]]
          /\ indexer_state' = <<end[1]>>]_vars

\* a run from block 1 to head 12000 has returned after the windows 1..5000,
\* 5001..10000 and 10001..12000
WindowPartitionWitness ==
  /\ pc[1] = "done"
  /\ current_block[1] = 12000
  /\ windows[1] = <<[start |-> 1, end |-> 5000], [start |-> 5001, end |-> 10000],
                    [start |-> 10001, end |-> 12000]>>

\* C18, as claimed: failed windows are not retried. While a pool is indexed
\* over a window, that window shares no block with the latest window in which
\* the pool raised and whose checkpoint was written; and a log of the pool in
\* such a window that is not stored is not stored by any later step.
FailedWindowNotRetried ==
  /\ [](pc[1] = "index" =>
          \A g \in gaps :
            g.pool = Lower(pools[1][poolIdx[1]]) => end[1] < g.start \/ start[1] > g.end)
  /\ [][\A g \in gaps :
          \A l \in LogsOf(g.pool, g.start, g.end) : ~Stored(l) => ~Stored(l)']_vars

\* C18 without the last block of a run's last window: a later window for the
\* pool starts after the failed window, or at its last block when that window
\* was the last of its run; and a log of the pool in the other blocks of the
\* window that is not stored is not stored by any later step.
FailedWindowNotRetriedButLastBlock ==
  /\ [](pc[1] = "index" =>
          \A g \in gaps :
            g.pool = Lower(pools[1][poolIdx[1]]) =>
              start[1] > g.end \/ (g.last /\ start[1] = g.end))
  /\ [][\A g \in gaps :
          \A l \in LogsOf(g.pool, g.start, IF g.last THEN g.end - 1 ELSE g.end) :
            ~Stored(l) => ~Stored(l)']_vars

(***************************************************************************)
(* Properties of the reader.                                               *)
(***************************************************************************)
\* seconds since the epoch of a UTC wall-clock value
EpochOf(dt) == dt.day * 86400 + dt.hour * 3600 + dt.minute * 60 + dt.second

\* the signed sum of a column over the first k rows: + for ADD, - for REMOVE
RECURSIVE SignedSum(_, _, _)
SignedSum(rows, k, column) ==
  IF k = 0 THEN 0
  ELSE SignedSum(rows, k - 1, column)
       + (IF rows[k].event_type = "ADD" THEN 1 ELSE 0 - 1) * ToInt(rows[k][column])

\* the result of the last query is the replay of the pool's liquidity rows
\* with block_time >= since, in ascending block_time order, from (0, 0)
IsReplayFrom(since) ==
  LET rows == SelectWindow(pool_liquidity_events, Lower(query.pool_address), since)
      result == query.result
  IN /\ Len(result) = Len(rows)
     /\ \A k \in 1..Len(rows) :
          /\ EpochOf(result[k].time) = rows[k].block_time
          /\ result[k].token0_balance = SignedSum(rows, k, "token0_amount")
          /\ result[k].token1_balance = SignedSum(rows, k, "token1_amount")

\* C7: liquidity replay, as claimed: get_liquidity_timeseries emits one point
\* per liquidity row of the pool with block_time >= now - lookback, ascending,
\* the k-th point holding the signed sum of the first k rows, never clamped.
LiquidityReplay ==
  query.fn = "get_liquidity_timeseries" =>
    IsReplayFrom(query.now - query.lookback_days * 86400)

\* the replay of C7 over the window the code computes: rows with block_time
\* >= now - lookback - (the host's UTC offset)
LiquidityReplayFromSinceTs ==
  query.fn = "get_liquidity_timeseries" =>
    IsReplayFrom(query.now - query.lookback_days * 86400 - utcOffset)

\* indexes of the pool_swaps rows the last query selects: the pool's rows
\* from the start of the window the query computes
SelectedSwaps ==
  {i \in DOMAIN pool_swaps :
     /\ pool_swaps[i].pool_address = Lower(query.pool_address)
     /\ pool_swaps[i].block_time >=
          query.now - query.lookback_days * 86400 - utcOffset}

HourOf(block_time) == block_time \div 3600

Gross0(r) == ToInt(r.amount0_in) + ToInt(r.amount0_out)
Gross1(r) == ToInt(r.amount1_in) + ToInt(r.amount1_out)

\* the addends of a volume are the gross amounts of the swaps idx, each once
SameAmounts(volume, idx, Gross(_)) ==
  /\ Len(volume) = Cardinality(idx)
  /\ \A n \in {volume[j].num : j \in DOMAIN volume} \cup {Gross(pool_swaps[i]) : i \in idx} :
       Cardinality({j \in DOMAIN volume : volume[j].num = n})
         = Cardinality({i \in idx : Gross(pool_swaps[i]) = n})

\* C9: hour bucketing. get_swap_volume_timeseries returns one row per clock
\* hour holding a selected swap of the pool, at the top of that hour, in
\* strictly ascending order, and the row's token0 / token1 volume sums the
\* gross amounts (in + out) of exactly the selected swaps of that hour.
HourBucketing ==
  query.fn = "get_swap_volume_timeseries" =>
    LET result == query.result
        hours == {HourOf(pool_swaps[i].block_time) : i \in SelectedSwaps}
    IN /\ Len(result) = Cardinality(hours)
       /\ \A k \in DOMAIN result :
            LET t == result[k].time
                inHour == {i \in SelectedSwaps :
                             HourOf(pool_swaps[i].block_time) = HourOf(EpochOf(t))}
            IN /\ t.minute = 0 /\ t.second = 0
               /\ HourOf(EpochOf(t)) \in hours
               /\ SameAmounts(result[k].token0_volume, inHour, Gross0)
               /\ SameAmounts(result[k].token1_volume, inHour, Gross1)
       /\ \A j, k \in DOMAIN result :
            j < k => EpochOf(result[j].time) < EpochOf(result[k].time)

\* two swaps at different times of one clock hour gave a single row summing both
HourBucketingWitness ==
  /\ query.fn = "get_swap_volume_timeseries"
  /\ Len(pool_swaps) = 2
  /\ pool_swaps[1].block_time # pool_swaps[2].block_time
  /\ Len(query.result) = 1
  /\ Len(query.result[1].token0_volume) = 2

\* every addend of the column, in every row of the frame, is divided by 10^d
DividedBy(result, column, d) ==
  \A k \in DOMAIN result :
    \A j \in DOMAIN result[k][column] : result[k][column][j].pow10 = d

\* C10: decimals fallback. For each decimals() call the query made: when the
\* call raised, the token's amounts are divided by 10^18 and 18 is what the
\* cache holds for it; when it returned d, they are divided by 10^d.
DecimalsFallback ==
  query.fn = "get_swap_volume_timeseries" =>
    \A c \in DOMAIN query.calls :
      LET call == query.calls[c]
          d == IF call.outcome = Raises THEN 18 ELSE call.outcome
      IN /\ decimals_cache[call.token] = d
         /\ ToChecksumAddress(query.token0_address) = call.token =>
              DividedBy(query.result, "token0_volume", d)
         /\ ToChecksumAddress(query.token1_address) = call.token =>
              DividedBy(query.result, "token1_volume", d)

\* the call for a 6-decimals token0 raised, the call for token1 returned, and
\* the frame's token0 volume is divided by 10^18
DecimalsFallbackWitness ==
  /\ query.fn = "get_swap_volume_timeseries"
  /\ query.token0_address = TokenX
  /\ Len(query.calls) = 2
  /\ query.calls[1].outcome = Raises
  /\ query.calls[2].outcome = 18
  /\ Len(query.result) >= 1
  /\ query.result[1].token0_volume[1].pow10 = 18

\* the lookback of the last query in seconds
LookbackSeconds ==
  IF query.fn = "get_recent_activity" THEN query.lookback_hours * 3600
  ELSE query.lookback_days * 86400

\* no row of the queried pool in any of the three event tables has block_time
\* >= since
NoRowSince(since) ==
  \A table \in {pool_liquidity_events, pool_swaps, pool_fee_claims} :
    \A i \in DOMAIN table :
      table[i].pool_address = Lower(query.pool_address) => table[i].block_time < since

\* the last query returned nothing (and, for swap volume, looked up no decimals)
IsEmptyResult ==
  CASE query.fn = "get_recent_activity" ->
         /\ query.result.latest_add = <<>>
         /\ query.result.latest_remove = <<>>
         /\ query.result.latest_claim = <<>>
    [] query.fn = "get_liquidity_timeseries" -> query.result = <<>>
    [] query.fn = "get_swap_volume_timeseries" ->
         /\ query.result = <<>>
         /\ query.calls = <<>>
         /\ decimals_cache = query.cacheBefore
    [] OTHER -> TRUE

\* C11: empty window, as claimed: when the queried pool has no row with
\* block_time >= now - lookback in any event table, get_recent_activity reports
\* the three kinds absent, the two series are empty, and the swap-volume query
\* looks up no decimals.
EmptyWindow ==
  query.fn # "none" => (NoRowSince(query.now - LookbackSeconds) => IsEmptyResult)

\* the empty window of C11 over the window the code computes: no row with
\* block_time >= now - lookback - (the host's UTC offset)
EmptyWindowFromSinceTs ==
  query.fn # "none" =>
    (NoRowSince(query.now - LookbackSeconds - utcOffset) => IsEmptyResult)

ActivityKinds == {"ADD", "REMOVE", "CLAIM"}

\* the rows of a kind for the queried pool, and the item reported for the kind
KindRows(kind) ==
  LET OfPool(r) == r.pool_address = Lower(query.pool_address)
      OfKind(r) == OfPool(r) /\ r.event_type = kind
  IN IF kind = "CLAIM" THEN SelectSeq(pool_fee_claims, OfPool)
     ELSE SelectSeq(pool_liquidity_events, OfKind)

ReportedItem(kind) ==
  CASE kind = "ADD" -> query.result.latest_add
    [] kind = "REMOVE" -> query.result.latest_remove
    [] kind = "CLAIM" -> query.result.latest_claim

ItemOf(kind, r) ==
  CASE kind = "ADD" ->
         fmt(<<r>>, "Liquidity Added", "token0_amount", "token1_amount",
             "provider_address", query.now)
    [] kind = "REMOVE" ->
         fmt(<<r>>, "Liquidity Removed", "token0_amount", "token1_amount",
             "provider_address", query.now)
    [] kind = "CLAIM" ->
         fmt(<<r>>, "Fees Claimed", "token0_fee", "token1_fee", "sender", query.now)

\* the item of the kind is that of a row of the kind with the greatest
\* block_time among those with block_time >= since, and absent when there is none
IsLatestSince(kind, since) ==
  LET rows == KindRows(kind)
      inWindow == {i \in DOMAIN rows : rows[i].block_time >= since}
  IN IF inWindow = {} THEN ReportedItem(kind) = <<>>
     ELSE \E i \in inWindow :
            /\ \A j \in inWindow : rows[j].block_time <= rows[i].block_time
            /\ ReportedItem(kind) = ItemOf(kind, rows[i])

\* the item of the kind is one the query yields on a store holding the rows of
\* that kind only
IndependentOfOtherKinds(kind) ==
  LET liq == IF kind = "CLAIM" THEN <<>> ELSE KindRows(kind)
      claims == IF kind = "CLAIM" THEN KindRows(kind) ELSE <<>>
      alone == get_recent_activity(liq, claims, query.pool_address,
                                   query.lookback_hours, query.now, utcOffset)
  IN \E a \in alone :
       CASE kind = "ADD" -> a.latest_add = ReportedItem(kind)
         [] kind = "REMOVE" -> a.latest_remove = ReportedItem(kind)
         [] kind = "CLAIM" -> a.latest_claim = ReportedItem(kind)

\* C12: recent activity, as claimed: for each kind get_recent_activity reports
\* the pool's row of that kind with the greatest block_time among those with
\* block_time >= now - lookbackHours, nothing when there is none, and the item
\* of a kind does not depend on the rows of the other kinds.
RecentActivityLatest ==
  query.fn = "get_recent_activity" =>
    \A kind \in ActivityKinds :
      /\ IsLatestSince(kind, query.now - query.lookback_hours * 3600)
      /\ IndependentOfOtherKinds(kind)

\* the lookups of C12 over the window the code computes: rows with block_time
\* >= now - lookbackHours - (the host's UTC offset)
RecentActivityLatestFromSinceTs ==
  query.fn = "get_recent_activity" =>
    \A kind \in ActivityKinds :
      /\ IsLatestSince(kind, query.now - query.lookback_hours * 3600 - utcOffset)
      /\ IndependentOfOtherKinds(kind)

\* the value get_token_decimals returned for a token in the last query: the
\* value cached before the query, else that of the query's call for the token
ResolvedDecimals(token_address) ==
  LET addr == ToChecksumAddress(token_address)
  IN IF addr \in DOMAIN query.cacheBefore THEN query.cacheBefore[addr]
     ELSE LET c == CHOOSE c \in DOMAIN query.calls : query.calls[c].token = addr
          IN IF query.calls[c].outcome = Raises THEN 18 ELSE query.calls[c].outcome

\* each selected swap contributes Gross / 10^d to the column of the row of
\* its hour: the row holds the addend as often as the hour holds such swaps
ContributesQuotient(column, Gross(_), d) ==
  \A i \in SelectedSwaps :
    \E k \in DOMAIN query.result :
      LET volume == query.result[k][column]
          sameHour == {j \in SelectedSwaps :
                         HourOf(pool_swaps[j].block_time) = HourOf(pool_swaps[i].block_time)}
      IN /\ HourOf(EpochOf(query.result[k].time)) = HourOf(pool_swaps[i].block_time)
         /\ Cardinality({a \in DOMAIN volume :
                           volume[a] = [num |-> Gross(pool_swaps[i]), pow10 |-> d]})
              = Cardinality({j \in sameHour : Gross(pool_swaps[j]) = Gross(pool_swaps[i])})

\* C14, as claimed: decimal normalization. A selected swap of gross raw amount
\* A for a token whose contract has d decimals contributes A / 10^d to that
\* token's volume in its hour bucket.
DecimalNormalizationOnChain ==
  query.fn = "get_swap_volume_timeseries" =>
    /\ ContributesQuotient("token0_volume", Gross0,
                           OnChainDecimals(ToChecksumAddress(query.token0_address)))
    /\ ContributesQuotient("token1_volume", Gross1,
                           OnChainDecimals(ToChecksumAddress(query.token1_address)))

\* C14, amended: decimal normalization. A selected swap of gross raw amount A
\* for a token for which get_token_decimals returns d (the cached value, else
\* the contract's decimals, else 18 when the call raises) contributes the
\* quotient A / 10^d to that token's volume in its hour bucket.
DecimalNormalization ==
  query.fn = "get_swap_volume_timeseries" /\ SelectedSwaps # {} =>
    /\ ContributesQuotient("token0_volume", Gross0, ResolvedDecimals(query.token0_address))
    /\ ContributesQuotient("token1_volume", Gross1, ResolvedDecimals(query.token1_address))

\* a swap of 30 raw units of the 6-decimals token0 and 7 of the 18-decimals
\* token1 contributed 30 / 10^6 and 7 / 10^18
DecimalNormalizationWitness ==
  /\ query.fn = "get_swap_volume_timeseries"
  /\ query.token0_address = TokenX
  /\ query.token1_address = TokenY
  /\ Len(query.result) >= 1
  /\ \E k \in DOMAIN query.result :
       /\ [num |-> 30, pow10 |-> 6] \in
            {query.result[k].token0_volume[a] : a \in DOMAIN query.result[k].token0_volume}
       /\ [num |-> 7, pow10 |-> 18] \in
            {query.result[k].token1_volume[a] : a \in DOMAIN query.result[k].token1_volume}

\* C19: decimals cache-once. A cache entry never changes or disappears; a
\* query calls decimals() only for a token that has no entry, at most once per
\* token, and the token has an entry afterwards; and the amounts of a token
\* that had an entry are divided by ten to the cached value, whatever the
\* contract would answer now.
DecimalsCacheOnce ==
  [][/\ \A a \in DOMAIN decimals_cache :
          a \in DOMAIN decimals_cache' /\ decimals_cache'[a] = decimals_cache[a]
     /\ query'.fn = "get_swap_volume_timeseries" =>
          LET calls == query'.calls
              addr0 == ToChecksumAddress(query'.token0_address)
              addr1 == ToChecksumAddress(query'.token1_address)
          IN /\ \A c \in DOMAIN calls :
                  /\ calls[c].token \notin DOMAIN decimals_cache
                  /\ calls[c].token \in DOMAIN decimals_cache'
             /\ \A c, d \in DOMAIN calls : calls[c].token = calls[d].token => c = d
             /\ addr0 \in DOMAIN decimals_cache =>
                  DividedBy(query'.result, "token0_volume", decimals_cache[addr0])
             /\ addr1 \in DOMAIN decimals_cache =>
                  DividedBy(query'.result, "token1_volume", decimals_cache[addr1])]_vars

\* the 6-decimals token has the entry 18 of a failed first call; a later query
\* over a swap of the pool made no call for it and divided its amounts by 10^18
DecimalsCacheOnceWitness ==
  /\ query.fn = "get_swap_volume_timeseries"
  /\ query.token0_address = TokenX
  /\ query.token1_address = TokenY
  /\ ToChecksumAddress(TokenX) \in DOMAIN query.cacheBefore
  /\ query.cacheBefore[ToChecksumAddress(TokenX)] = 18
  /\ OnChainDecimals(ToChecksumAddress(TokenX)) = 6
  /\ \A c \in DOMAIN query.calls : query.calls[c].token # ToChecksumAddress(TokenX)
  /\ Len(query.result) >= 1
  /\ query.result[1].token0_volume[1].pow10 = 18
  /\ decimals_cache[ToChecksumAddress(TokenX)] = 18

\* the table with its rows stored in the order f, a permutation of the row ids
StoredInOrder(table, f) == [i \in DOMAIN table |-> table[f[i]]]

\* the last get_liquidity_timeseries call returns the same frame over every
\* order of insertion of the rows of pool_liquidity_events
SameForEveryOrder ==
  \A f \in Permutations(DOMAIN pool_liquidity_events) :
    get_liquidity_timeseries(StoredInOrder(pool_liquidity_events, f), query.pool_address,
                             query.lookback_days, query.now, utcOffset) = query.result

\* C20, as claimed: storage order independence. For the rows the store holds,
\* rows of one block_time included, the frame get_liquidity_timeseries
\* returns is the same for every order in which the rows were inserted.
StorageOrderIndependence ==
  query.fn = "get_liquidity_timeseries" => SameForEveryOrder

\* C20 for rows of distinct times: when no two rows of the queried pool share
\* a block_time, the frame is the same for every order of insertion.
StorageOrderIndependenceDistinctTimes ==
  query.fn = "get_liquidity_timeseries" =>
    LET t == pool_liquidity_events
        Distinct == \A i, j \in DOMAIN t :
                      /\ i # j
                      /\ t[i].pool_address = Lower(query.pool_address)
                      /\ t[j].pool_address = Lower(query.pool_address)
                      => t[i].block_time # t[j].block_time
    IN Distinct => SameForEveryOrder

\* a step of one of the three reader queries
QueryStep == query' # query \/ decimals_cache' # decimals_cache

\* C21: queries are pure reads. A query step, between any two steps of a
\* scanner run, leaves every row of the three event tables and the checkpoint
\* row unchanged, and leaves the scanner's run as it is: its position, its
\* locals and the rows it has inserted and not yet committed.
PureReads ==
  [][QueryStep =>
       /\ pool_liquidity_events' = pool_liquidity_events
       /\ pool_swaps' = pool_swaps
       /\ pool_fee_claims' = pool_fee_claims
       /\ indexer_state' = indexer_state
       /\ scanVars' = scanVars]_vars

\* get_recent_activity has reported the fee claim of block 9000, committed for
\* the first pool, while the scanner is indexing the second pool in its second
\* window, and the store holds rows older than the query's window
PureReadsWitness ==
  /\ query.fn = "get_recent_activity"
  /\ query.result.latest_claim # <<>>
  /\ query.result.latest_add = <<>>
  /\ pc[1] = "index"
  /\ poolIdx[1] = 2
  /\ windowsDone[1] = 1
  /\ Len(pool_liquidity_events) >= 1

\* the committed rows that hold the log
Copies(l) ==
  LET rows == CASE l.event \in {"Mint", "Burn"} -> pool_liquidity_events
                [] l.event = "Swap" -> pool_swaps
                [] l.event = "Claim" -> pool_fee_claims
  IN Cardinality({i \in DOMAIN rows : rows[i].tx_hash = Hex(l.transactionHash)
                                         /\ rows[i].pool_address = l.address})

\* C22: unserialized concurrent runs race. With two runs interleaved, a
\* checkpoint write stores the end of the writer's own window whatever value
\* the row holds, and a commit appends the connection's rows whatever rows the
\* tables hold: nothing compares the write with the store. (The witness is a
\* state in which both outcomes of the race have happened.)
ConcurrentRunsRace ==
  [][\A p \in Procs :
       /\ windowsDone'[p] # windowsDone[p] /\ windowsDone'[p] > 0 =>
            indexer_state' = <<end[p]>>
       /\ pc[p] \in {"index", "update"} /\ storeVars' # storeVars /\ ~NothingPending(p) =>
            /\ pool_liquidity_events' = pool_liquidity_events \o pendLiq[p]
            /\ pool_swaps' = pool_swaps \o pendSwaps[p]
            /\ pool_fee_claims' = pool_fee_claims \o pendClaims[p]]_vars

\* one run has returned after writing last_block = 9000; the other run then
\* wrote the end of its first window, so the checkpoint went back from 9000 to
\* 4999; and the Mint of block 100 is stored twice
ConcurrentRunsRaceWitness ==
  /\ \E p \in Procs :
       /\ pc[p] = "done"
       /\ windowsDone[p] = 2
       /\ windows[p][2].end = 9000
  /\ indexer_state = <<4999>>
  /\ Copies(ChainLogs[1]) = 2

\* C23: a storage failure aborts the window's writes. Once a storage operation
\* has raised while a pool's rows were written in a window, no step of that
\* window inserts an event row, for that pool or for the pools after it.
StorageFailureAbortsWindow ==
  [][storageErr[1] =>
       /\ Len(pendLiq'[1]) <= Len(pendLiq[1])
       /\ Len(pendSwaps'[1]) <= Len(pendSwaps[1])
       /\ Len(pendClaims'[1]) <= Len(pendClaims[1])]_vars

\* no index_pool_events call has raised in a window of this or an earlier run
FailureFree == gaps = {} /\ failed[1] = {} /\ ~raisedRun[1]

\* C24: no duplicates across sequential runs. As long as the runs are free of
\* failures, every log on chain is held by at most one committed row (a block
\* fetched twice for a pool leaves two rows for each of the pool's logs in it).
NoDuplicates ==
  FailureFree => \A i \in DOMAIN ChainLogs : Copies(ChainLogs[i]) <= 1

\* the greatest block get_start_block can seed the checkpoint with
LatestSeed ==
  LET seeds == {SeedBlock(h) : h \in Heads \cup BoundaryHeads}
  IN CHOOSE s \in seeds : \A t \in seeds : t <= s

\* C25: no gaps across sequential runs. As long as the runs are free of
\* failures, when a run that processed a window has returned: the run started
\* at the checkpoint the run before it left (at the seed, when there was
\* none), so no block between two runs is skipped; every log of each of the
\* run's pools in the blocks from there up to last_block is a committed row;
\* the rows of the runs before it are still there; and, over all runs, every
\* log in the blocks from the seed up to last_block of the pool that every run
\* tracks is a committed row.
NoGaps ==
  FailureFree /\ pc[1] = "done" /\ windowsDone[1] >= 1 =>
    LET last_block == indexer_state[1]
    IN /\ from_block[1] = IF atStart[1].state = <<>> THEN SeedBlock(gsbHead[1])
                                                     ELSE atStart[1].state[1]
       /\ last_block = current_block[1]
       /\ \A i \in DOMAIN pools[1] :
            \A l \in LogsOf(Lower(pools[1][i]), from_block[1], last_block) : Committed(l)
       /\ IsPrefix(atStart[1].liq, pool_liquidity_events)
       /\ IsPrefix(atStart[1].swaps, pool_swaps)
       /\ IsPrefix(atStart[1].claims, pool_fee_claims)
       /\ \A l \in LogsOf(Lower(PoolA), LatestSeed, last_block) : Committed(l)

\* the third of three runs free of failures has returned: seeded at block 0,
\* the runs reached the heads 3000, 9000 and 12000, and every log of the first
\* pool is a committed row
NoGapsWitness ==
  /\ FailureFree
  /\ pc[1] = "done"
  /\ runs = 3
  /\ windowsDone[1] >= 1
  /\ atStart[1].state = <<9000>>
  /\ indexer_state = <<12000>>
  /\ \A l \in LogsOf(Lower(PoolA), 0, 12000) : Committed(l)

\* the rows that held the log when the run of process 1 started
CopiesAtStart(l) ==
  LET rows == CASE l.event \in {"Mint", "Burn"} -> atStart[1].liq
                [] l.event = "Swap" -> atStart[1].swaps
                [] l.event = "Claim" -> atStart[1].claims
  IN Cardinality({i \in DOMAIN rows : rows[i].tx_hash = Hex(l.transactionHash)
                                         /\ rows[i].pool_address = l.address})

\* C26: per-pool-window atomicity. For a pool whose index_pool_events raised
\* in the current window (the last window, once the run has returned), no row
\* of a log of that pool in that window has become durable: the committed
\* rows holding such a log are those the store held when the run started.
PoolWindowAtomicity ==
  pc[1] \in {"index", "update", "done"} =>
    \A i \in failed[1] :
      \A l \in LogsOf(Lower(pools[1][i]), start[1], end[1]) :
        Copies(l) = CopiesAtStart(l)

\* C27: the checkpoint never runs ahead of attempted work. A step writes
\* last_block as a window's end only when every pool of the list has been
\* attempted for that window, the windows before it in the run having been
\* written the same way. So at every point of a run, and after the run was
\* aborted there, the stored last_block is the end of the last window whose
\* pools were all attempted, or the block the run started at when there is no
\* such window, and it is not above the first block of the window under way;
\* and the next run starts at the stored last_block.
CheckpointNotAhead ==
  /\ [][windowsDone'[1] = windowsDone[1] + 1 =>
          /\ attempted[1] = 1..Len(pools[1])
          /\ indexer_state' = <<end[1]>>
          /\ windows'[1] = Append(windows[1], [start |-> start[1], end |-> end[1]])]_vars
  /\ [](runs >= 1 =>
          /\ windows[1] # <<>> => indexer_state = <<windows[1][Len(windows[1])].end>>
          /\ windows[1] = <<>> /\ from_block[1] # None => indexer_state = <<from_block[1]>>
          /\ windows[1] = <<>> /\ from_block[1] = None => indexer_state = atStart[1].state
          /\ pc[1] \in {"index", "update"} => indexer_state[1] <= start[1]
          /\ from_block[1] # None /\ atStart[1].state # <<>> =>
               from_block[1] = atStart[1].state[1])

\* a run was aborted in its second window, after the first pool's fee claim of
\* block 9000 was committed and before last_block = 9000 was written; the next
\* run starts its first window at the stored last_block, 4999
CheckpointNotAheadWitness ==
  /\ runs = 2
  /\ lastHead[1] = None
  /\ pc[1] = "index"
  /\ atStart[1].state = <<4999>>
  /\ atStart[1].claims # <<>>
  /\ from_block[1] = 4999
  /\ start[1] = 4999
  /\ windows[1] = <<>>

\* an address in capital letters
UpperChar(c) ==
  CASE c = "a" -> "A" [] c = "b" -> "B" [] c = "c" -> "C"
    [] c = "d" -> "D" [] c = "e" -> "E" [] c = "f" -> "F"
    [] OTHER -> c

Upper(a) == [i \in DOMAIN a |-> UpperChar(a[i])]

\* spellings of one address
Spellings(a) == {a, Upper(a), [i \in DOMAIN a |-> LowerChar(UpperChar(a[i]))]}

SameAddress(a, b) == Upper(a) = Upper(b)

\* the row index_pool_events inserts for a log, whatever the spelling of the
\* pool in the list
RowOfLog(l) ==
  LET ts == ChainTimestamp(l.blockNumber)
  IN CASE l.event = "Mint" -> LiquidityRow(l.address, "ADD", l, ts)
       [] l.event = "Burn" -> LiquidityRow(l.address, "REMOVE", l, ts)
       [] l.event = "Swap" -> SwapRow(l.address, l, ts)
       [] l.event = "Claim" -> ClaimRow(l.address, l, ts)

\* every row, committed or inserted by process 1, is the row of a log on chain
\* of one of the run's pools, stored under the address in small letters
StoredUnderLowerCase ==
  LET rows == pool_liquidity_events \o pendLiq[1] \o pool_swaps \o pendSwaps[1]
                \o pool_fee_claims \o pendClaims[1]
  IN \A i \in DOMAIN rows :
       /\ \A k \in DOMAIN rows[i].pool_address :
            rows[i].pool_address[k] \notin {"A", "B", "C", "D", "E", "F"}
       /\ \E k \in DOMAIN ChainLogs :
            /\ rows[i] = RowOfLog(ChainLogs[k])
            /\ \E j \in DOMAIN pools[1] : SameAddress(pools[1][j], rows[i].pool_address)

\* the rows of a table that belong to the pool
RowsOfPool(table, a) ==
  LET Own(r) == SameAddress(r.pool_address, a)
  IN SelectSeq(table, Own)

\* the query step returns what the query returns for the spelling v of its
\* pool over the pool's own rows alone; echo tells whether the pool_address
\* field of a RecentActivity value, which repeats the argument, is compared
SameResultFor(v, echo) ==
  LET liq == RowsOfPool(pool_liquidity_events, v)
      swaps == RowsOfPool(pool_swaps, v)
      claims == RowsOfPool(pool_fee_claims, v)
  IN CASE query'.fn = "get_liquidity_timeseries" ->
            query'.result = get_liquidity_timeseries(liq, v, query'.lookback_days,
                                                     query'.now, utcOffset)
       [] query'.fn = "get_swap_volume_timeseries" ->
            query'.result =
              get_swap_volume_timeseries(swaps, decimals_cache', v, query'.token0_address,
                                         query'.token1_address, query'.lookback_days,
                                         query'.now, utcOffset, Raises, Raises).result
       [] query'.fn = "get_recent_activity" ->
            (IF echo THEN query'.result ELSE [query'.result EXCEPT !.pool_address = v])
              \in get_recent_activity(liq, claims, v, query'.lookback_hours,
                                      query'.now, utcOffset)
       [] OTHER -> TRUE

\* C28, as claimed: pool isolation and address-case insensitivity. Rows are
\* stored under the address in small letters, and a query returns the same
\* result, computed from the pool's rows alone, for every spelling of the pool.
CaseInsensitive ==
  /\ [](runs >= 1 => StoredUnderLowerCase)
  /\ [][QueryStep =>
          \A v \in Spellings(query'.pool_address) : SameResultFor(v, TRUE)]_vars

\* C28, amended: the same, where the RecentActivity value is compared by its
\* three activity items: its pool_address field repeats the argument.
CaseInsensitiveItems ==
  /\ [](runs >= 1 => StoredUnderLowerCase)
  /\ [][QueryStep =>
          \A v \in Spellings(query'.pool_address) : SameResultFor(v, FALSE)]_vars

\* the run was given the pool as 9da and has committed its rows, the fee
\* claim among them, and get_recent_activity, asked for 9DA, reports the claim
CaseInsensitiveItemsWitness ==
  /\ pc[1] = "done"
  /\ pools[1] = <<(<<"9", "d", "a">>)>>
  /\ query.fn = "get_recent_activity"
  /\ query.pool_address = <<"9", "D", "A">>
  /\ query.result.latest_claim # <<>>
  /\ query.result.latest_add # <<>>

====
